---- MODULE Spec2Model ----
(***************************************************************************)
(* Model of the keyboard effect manager (src/daemon/kbd/mod.rs) and of the *)
(* sysfs driver shim (src/driver_sysfs.rs) of razer-laptop-control.        *)
(*                                                                         *)
(* Spec       : the EffectManager driven by its commands and by the tick.  *)
(* SpecSysfs  : the driver shim's lazily resolved path and its accessors.  *)
(*                                                                         *)
(* board.rs, effects.rs and device.rs are not part of the sources at hand; *)
(* the parts of them the manager calls are modelled from the design text.  *)
(***************************************************************************)
EXTENDS Integers, Sequences, FiniteSets, TLC

(***************************************************************************)
(* Program constants and bounds                                            *)
(***************************************************************************)
\* number of physical keys: `mask: [bool; 90]`, `key_mask.len() != 90`
KEYS == 90

\* bound: most layers the manager holds in a run
MaxLayers == 2

\* bound: most records in one loaded document
MaxRecords == 2

\* bound: most ticks that recompose a frame in a run
MaxTime == 2

\* period of the phase of the animated effects
WavePeriod == 3

Keys == 0 .. (KEYS - 1)

Black == <<0, 0, 0>>

(***************************************************************************)
(* board::KeyboardData                                                     *)
(***************************************************************************)
\* KeyboardData::new(): every key dark
NewBoard == [i \in 1 .. KEYS |-> Black]

\* KeyboardData::set_kbd_colour(r, g, b)
set_kbd_colour(b, r, g, bl) == [i \in 1 .. KEYS |-> <<r, g, bl>>]

\* KeyboardData::get_key_at(pos)
get_key_at(b, pos) == b[pos + 1]

\* KeyboardData::set_key_at(pos, colour)
set_key_at(b, pos, c) == [b EXCEPT ![pos + 1] = c]

(***************************************************************************)
(* Effects: name, parameter bytes, animation phase                         *)
(***************************************************************************)
EffectNames == {"Static", "Wave Gradient", "Breathing Single", "Static Gradient"}

\* Effect::new(args): the parameters are kept as given, the phase starts at 0
EffectNew(name, args) == [name |-> name, args |-> args, phase |-> 0]

\* one channel of the gradient between colours a and b at key position p
Lerp(a, b, p) == a + (((b - a) * p) \div (KEYS - 1))

GradientAt(args, p) ==
    << Lerp(args[1], args[4], p), Lerp(args[2], args[5], p), Lerp(args[3], args[6], p) >>

\* brightness of the breathing colour at a phase: full, half, dark, half, ...
BreathLevel(phase, period) ==
    IF phase = 0 THEN 2 ELSE IF phase = period - 1 \/ phase = 1 THEN 1 ELSE 0

\* the period of a breathing effect comes from its duration parameter
BreathPeriod(args) == IF args[4] < 2 THEN 2 ELSE args[4]

\* Effect::update(): the full-board snapshot of this tick
EffectFrame(e) ==
    CASE e.name = "Static" ->
            [i \in 1 .. KEYS |-> << e.args[1], e.args[2], e.args[3] >>]
      [] e.name = "Static Gradient" ->
            [i \in 1 .. KEYS |-> GradientAt(e.args, i - 1)]
      [] e.name = "Wave Gradient" ->
            [i \in 1 .. KEYS |-> GradientAt(e.args, (i - 1 + e.phase * 30) % KEYS)]
      [] OTHER ->
            [i \in 1 .. KEYS |->
                << (e.args[1] * BreathLevel(e.phase, BreathPeriod(e.args))) \div 2,
                   (e.args[2] * BreathLevel(e.phase, BreathPeriod(e.args))) \div 2,
                   (e.args[3] * BreathLevel(e.phase, BreathPeriod(e.args))) \div 2 >>]

\* Effect::update(): the phase after this tick
EffectStep(e) ==
    CASE e.name = "Wave Gradient" -> [e EXCEPT !.phase = (e.phase + 1) % WavePeriod]
      [] e.name = "Breathing Single" ->
            [e EXCEPT !.phase = (e.phase + 1) % BreathPeriod(e.args)]
      [] OTHER -> e

\* Effect::save(): EffectSave { args, name }
EffectSave(e) == [args |-> e.args, name |-> e.name]

(***************************************************************************)
(* EffectLayer                                                             *)
(***************************************************************************)
\* a mask as the code holds it: one boolean per key position
MaskOf(S) == [i \in 1 .. KEYS |-> (i - 1) \in S]

\* EffectLayer::new(effect, mask)
LayerNew(effect, mask) == [key_mask |-> mask, effect |-> effect]

\* EffectLayer::update(): delegates to the effect
LayerFrame(l) == EffectFrame(l.effect)

\* a layer update that leaves out the layers whose mask covers no key
LayerStep_masked(l) ==
    IF \A i \in 1 .. KEYS : ~l.key_mask[i] THEN l
    ELSE [l EXCEPT !.effect = EffectStep(l.effect)]

\* EffectLayer::update(): the effect moves on by one tick
LayerStep(l) == [l EXCEPT !.effect = EffectStep(l.effect)]

(***************************************************************************)
(* JSON values as far as the persisted layer records use them.  A value    *)
(* carries its JSON type t and one payload per type; a missing field reads *)
(* as null, as serde_json's index operator gives it.                       *)
(***************************************************************************)
JNull == [t |-> "null", s |-> "", b |-> <<>>, m |-> <<>>]

JStr(x) == [t |-> "str", s |-> x, b |-> <<>>, m |-> <<>>]

\* an array of numbers that all fit a byte
JBytes(x) == [t |-> "bytes", s |-> "", b |-> x, m |-> <<>>]

\* an array of booleans
JBools(x) == [t |-> "bools", s |-> "", b |-> <<>>, m |-> x]

\* a single number
JNum(x) == [t |-> "num", s |-> "", b |-> <<x>>, m |-> <<>>]

is_null(v) == v.t = "null"

\* get_save that writes the mask with every entry inverted
get_save_flip(l) ==
    LET x == EffectSave(l.effect)
    IN  [some |-> TRUE,
         json |-> [name |-> JStr(x.name), args |-> JBytes(x.args),
                   key_mask |-> JBools([i \in 1 .. KEYS |-> ~l.key_mask[i]])]]

\* EffectLayer::get_save(): the effect's save plus the key_mask field.
\* serde_json::to_value of an EffectSave cannot fail, so the result is Some.
get_save(l) ==
    LET x == EffectSave(l.effect)
    IN  [some |-> TRUE,
         json |-> [name |-> JStr(x.name), args |-> JBytes(x.args),
                   key_mask |-> JBools(l.key_mask)]]

NoLayer == LayerNew(EffectNew("", <<>>), <<>>)

\* from_save that cuts or fills a mask of another length to one entry per key
from_save_pad(json) ==
    IF is_null(json.key_mask) \/ is_null(json.name) \/ is_null(json.args)
    THEN [kind |-> "none", layer |-> NoLayer]
    ELSE IF json.key_mask.t # "bools"
    THEN [kind |-> "panic", layer |-> NoLayer]
    ELSE IF json.name.t # "str"
    THEN [kind |-> "panic", layer |-> NoLayer]
    ELSE IF json.args.t # "bytes"
    THEN [kind |-> "panic", layer |-> NoLayer]
    ELSE IF json.name.s \notin EffectNames
    THEN [kind |-> "none", layer |-> NoLayer]
    ELSE [kind |-> "some",
          layer |-> [key_mask |-> [i \in 1 .. KEYS |->
                                     i <= Len(json.key_mask.m) /\ json.key_mask.m[i]],
                     effect |-> EffectNew(json.name.s, json.args.b)]]

\* EffectLayer::from_save(json): "some" with the layer, "none" for a record
\* that is turned down, "panic" where an unwrap() meets an Err
from_save(json) ==
    IF is_null(json.key_mask) \/ is_null(json.name) \/ is_null(json.args)
    THEN [kind |-> "none", layer |-> NoLayer]
    ELSE IF json.key_mask.t # "bools"
    THEN [kind |-> "panic", layer |-> NoLayer]
    ELSE IF Len(json.key_mask.m) # KEYS
    THEN [kind |-> "none", layer |-> NoLayer]
    ELSE IF json.name.t # "str"
    THEN [kind |-> "panic", layer |-> NoLayer]
    ELSE IF json.args.t # "bytes"
    THEN [kind |-> "panic", layer |-> NoLayer]
    ELSE IF json.name.s \notin EffectNames
    THEN [kind |-> "none", layer |-> NoLayer]
    ELSE [kind |-> "some",
          layer |-> [key_mask |-> json.key_mask.m,
                     effect |-> EffectNew(json.name.s, json.args.b)]]

(***************************************************************************)
(* EffectManager: the pure parts of its operations                         *)
(***************************************************************************)
\* the body of the loop of update() for one layer
Paint(board, l) ==
    LET tmp_board == LayerFrame(l)
    IN  [i \in 1 .. KEYS |->
            IF l.key_mask[i] THEN get_key_at(tmp_board, i - 1) ELSE board[i]]

RECURSIVE Composite_rev(_, _, _)
\* update() with the layers painted newest first
Composite_rev(board, ls, i) ==
    IF i > Len(ls) THEN board ELSE Paint(Composite_rev(board, ls, i + 1), ls[i])

RECURSIVE Composite(_, _, _)
\* the loop of update() from layer i on, oldest layer first
Composite(board, ls, i) ==
    IF i > Len(ls) THEN board ELSE Composite(Paint(board, ls[i]), ls, i + 1)

\* every layer's effect is updated once in the pass
StepAll(ls) == [i \in 1 .. Len(ls) |-> LayerStep(ls[i])]

RECURSIVE SaveFrom_rev(_, _)
\* save() with the records pushed to the front of the list
SaveFrom_rev(ls, i) ==
    IF i > Len(ls) THEN <<>>
    ELSE LET save == get_save(ls[i])
         IN  IF save.some THEN SaveFrom_rev(ls, i + 1) \o <<save.json>>
             ELSE SaveFrom_rev(ls, i + 1)

RECURSIVE SaveFrom(_, _)
\* the loop of save(): the records of the layers that serialised
SaveFrom(ls, i) ==
    IF i > Len(ls) THEN <<>>
    ELSE LET save == get_save(ls[i])
         IN  IF save.some THEN <<save.json>> \o SaveFrom(ls, i + 1)
             ELSE SaveFrom(ls, i + 1)

\* a document: its `effects` field, null when the field is missing
EffectsDoc(recs) == [effects |-> [t |-> "arr", a |-> recs]]

NoEffectsDoc == [effects |-> [t |-> "null", a |-> <<>>]]

BadEffectsDoc == [effects |-> [t |-> "num", a |-> <<>>]]

\* save() that writes the record of the newest layer only
save_last(ls) ==
    EffectsDoc(IF ls = <<>> THEN <<>> ELSE << get_save(ls[Len(ls)]).json >>)

\* EffectManager::save()
save(ls) == EffectsDoc(SaveFrom(ls, 1))

RECURSIVE LoadFrom_stop(_, _, _)
\* load_from_save() that gives up at the first record it turns down
LoadFrom_stop(ls, recs, i) ==
    IF i > Len(recs) THEN [layers |-> ls, panicked |-> FALSE]
    ELSE LET x == from_save(recs[i])
         IN  CASE x.kind = "some" -> LoadFrom_stop(Append(ls, x.layer), recs, i + 1)
               [] x.kind = "none" -> [layers |-> ls, panicked |-> FALSE]
               [] OTHER -> [layers |-> ls, panicked |-> TRUE]

RECURSIVE LoadFrom(_, _, _)
\* the loop of load_from_save() from record i on
LoadFrom(ls, recs, i) ==
    IF i > Len(recs) THEN [layers |-> ls, panicked |-> FALSE]
    ELSE LET x == from_save(recs[i])
         IN  CASE x.kind = "some" -> LoadFrom(Append(ls, x.layer), recs, i + 1)
               [] x.kind = "none" -> LoadFrom(ls, recs, i + 1)
               [] OTHER -> [layers |-> ls, panicked |-> TRUE]

\* load_from_save() that starts from a cleared stack when the field is missing
load_from_save_clear(ls, json) ==
    IF json.effects.t = "null" THEN [layers |-> <<>>, panicked |-> FALSE]
    ELSE IF json.effects.t # "arr" THEN [layers |-> ls, panicked |-> TRUE]
    ELSE LoadFrom(ls, json.effects.a, 1)

\* EffectManager::load_from_save(json)
load_from_save(ls, json) ==
    IF json.effects.t = "null" THEN [layers |-> ls, panicked |-> FALSE]
    ELSE IF json.effects.t # "arr" THEN [layers |-> ls, panicked |-> TRUE]
    ELSE LoadFrom(ls, json.effects.a, 1)

(***************************************************************************)
(* driver_sysfs: text of the attribute files                               *)
(***************************************************************************)
Digits == << "0", "1", "2", "3", "4", "5", "6", "7", "8", "9" >>

IsDigit(c) == \E d \in 1 .. 10 : Digits[d] = c

DigitVal(c) == (CHOOSE d \in 1 .. 10 : Digits[d] = c) - 1

RECURSIVE FmtNat(_)
\* the decimal digits of a natural number
FmtNat(n) == IF n < 10 THEN << Digits[n + 1] >> ELSE Append(FmtNat(n \div 10), Digits[(n % 10) + 1])

\* format!("{}", n) of an integer
FmtInt(n) == IF n < 0 THEN << "-" >> \o FmtNat(0 - n) ELSE FmtNat(n)

RECURSIVE trim_end_newlines(_)
\* str::trim_end_matches('\n')
trim_end_newlines(s) ==
    IF s # <<>> /\ s[Len(s)] = "\n" THEN trim_end_newlines(SubSeq(s, 1, Len(s) - 1)) ELSE s

RECURSIVE DigitsVal(_, _)
\* the value of a run of digits read after acc, -1 if a character is no digit
DigitsVal(s, acc) ==
    IF s = <<>> THEN acc
    ELSE IF ~IsDigit(s[1]) THEN -1
    ELSE DigitsVal(Tail(s), acc * 10 + DigitVal(s[1]))

\* str::parse of an integer type with the range lo..hi: an optional sign (a
\* minus only for a signed type), then at least one digit, no overflow
ParseInt(s, lo, hi) ==
    LET signed == s # <<>> /\ (s[1] = "+" \/ (s[1] = "-" /\ lo < 0))
        body == IF signed THEN Tail(s) ELSE s
        mag == IF body = <<>> THEN -1 ELSE DigitsVal(body, 0)
        val == IF signed /\ s[1] = "-" THEN 0 - mag ELSE mag
    IN  IF mag < 0 \/ val < lo \/ val > hi THEN [ok |-> FALSE, val |-> 0]
        ELSE [ok |-> TRUE, val |-> val]

U8_MAX == 255

I32_MAX == 2147483647

parse_u8(s) == ParseInt(s, 0, U8_MAX)

parse_i32(s) == ParseInt(s, 0 - I32_MAX - 1, I32_MAX)

(***************************************************************************)
(* Inputs of the commands                                                  *)
(***************************************************************************)
Red == <<255, 0, 0>>

\* the effects a command can build: one of each registered variant
EffectPool ==
    { EffectNew("Static", Red),
      EffectNew("Static Gradient", <<0, 255, 0, 0, 0, 255>>),
      EffectNew("Wave Gradient", <<255, 255, 0, 0, 0, 255>>),
      EffectNew("Breathing Single", <<0, 0, 254, 3>>) }

MaskPool == { MaskOf({0, 1, 2}), MaskOf({1, 2, 3}), MaskOf({}) }

\* the layers a command can push: overlapping masks, and one that covers no key
LayerPool ==
    { l \in { LayerNew(e, m) : e \in EffectPool, m \in MaskPool } :
        \/ l.effect.name = "Static" /\ l.key_mask = MaskOf({0, 1, 2})
        \/ l.effect.name \in {"Static Gradient", "Wave Gradient"}
              /\ l.key_mask = MaskOf({1, 2, 3})
        \/ l.effect.name = "Breathing Single" /\ l.key_mask = MaskOf({}) }

\* records as save() writes them
StaticRec == get_save(LayerNew(EffectNew("Static", Red), MaskOf({0, 1, 2}))).json

WaveRec ==
    get_save(LayerNew(EffectNew("Wave Gradient", <<255, 255, 0, 0, 0, 255>>),
                      MaskOf({1, 2, 3}))).json

ValidRecs == { StaticRec, WaveRec }

GoodRec == StaticRec

\* records with a key_mask of another length than the keyboard's
BadLenRecs ==
    { [GoodRec EXCEPT !.key_mask = JBools([i \in 1 .. (KEYS - 1) |-> TRUE])],
      [GoodRec EXCEPT !.key_mask = JBools([i \in 1 .. (KEYS + 1) |-> FALSE])] }

\* records that miss a field
MissingRecs ==
    { [GoodRec EXCEPT !.name = JNull], [GoodRec EXCEPT !.args = JNull],
      [GoodRec EXCEPT !.key_mask = JNull] }

\* records that name no registered effect
UnknownRecs == { [GoodRec EXCEPT !.name = JStr("Rainbow")] }

\* records with a field of another JSON type
WrongTypeRecs ==
    { [GoodRec EXCEPT !.key_mask = JNum(7)], [GoodRec EXCEPT !.args = JStr("red")],
      [GoodRec EXCEPT !.name = JNum(1)] }

BadRecs == BadLenRecs \cup MissingRecs \cup UnknownRecs \cup WrongTypeRecs

RECURSIVE SeqsUpTo(_, _)
\* the sequences over S of length at most n
SeqsUpTo(S, n) ==
    IF n = 0 THEN { <<>> }
    ELSE LET shorter == SeqsUpTo(S, n - 1)
         IN  shorter \cup { Append(q, x) : q \in shorter, x \in S }

\* n valid records, the two kinds in turn
ValidList(n) == [i \in 1 .. n |-> IF i % 2 = 1 THEN StaticRec ELSE WaveRec]

\* the list q with x put in at position i
InsertAt(q, i, x) == SubSeq(q, 1, i - 1) \o << x >> \o SubSeq(q, i, Len(q))

\* the record lists a document can carry: valid records only, valid
\* records with one malformed record before, between or after them, or one
\* record that is turned down, alone
RecLists ==
    SeqsUpTo(ValidRecs, MaxRecords)
        \cup { InsertAt(ValidList(MaxRecords - 1), i, x) : i \in 1 .. MaxRecords, x \in BadRecs }
        \cup { << x >> : x \in BadLenRecs }

Docs == { EffectsDoc(q) : q \in RecLists } \cup { NoEffectsDoc, BadEffectsDoc }

(***************************************************************************)
(* State                                                                   *)
(***************************************************************************)
VARIABLES
    layers,          \* EffectManager.layers
    last_update_ms,  \* EffectManager.last_update_ms
    render_board,    \* EffectManager.render_board
    now,             \* the clock get_millis() reads
    hw,              \* the sysfs writes the last operation issued, in order
    saved,           \* what the last operation returned, if it was save()
    arg,             \* the document the last load_from_save() was given
    lastOp,          \* the operation that ran last
    panicked,        \* the thread of the manager has panicked
    layer_id,        \* the id the last operation was given, if it was get_map()
    dir,             \* what a scan of DRIVER_DIR meets
    sysfs_path,      \* the lazily initialised SYSFS_PATH
    scans,           \* how often DRIVER_DIR was scanned
    files,           \* the text each readable attribute file holds
    attr,            \* the attribute the last accessor call was about
    warg,            \* the value the last write accessor was given
    ret,             \* how the last accessor call ended: kind "ok" or "panic",
                     \* the flag b a write returned, the number n a read
                     \* returned, and whether its file access succeeded (io)
    ac_online,       \* the file /sys/class/power_supply/AC0/online
    supply,          \* what the last read_power_source() returned
    tick_pc,         \* where the tick task stands in update(): "idle" outside
                     \* it, then "loop", "map" and "custom"
    tick_i,          \* the layer the loop of update() handles next
    tick_ls,         \* the layers as they were when the running update() began
    tick_board,      \* the board as it was when the running update() began
    client,          \* the settings client: "running" or "crashed"
    site,            \* the call site of the client that ran last
    replies,         \* what the daemon answered to the requests of that call
    held             \* what the helper of that call returned: "some" or "none"

kbdvars == << layers, last_update_ms, render_board, now, hw, saved, arg, panicked,
             layer_id >>

sysvars == << dir, sysfs_path, scans, files, attr, warg, ret >>

probevars == << ac_online, supply >>

tickvars == << tick_pc, tick_i, tick_ls, tick_board >>

clientvars == << client, site, replies, held >>

extvars == << probevars, tickvars, clientvars >>

othervars == << sysvars, extvars >>

vars == << kbdvars, sysvars, extvars, lastOp >>

\* the attribute files that are read back
ReadAttrs == {"brightness", "power_mode", "cpu_boost", "gpu_boost", "logo_led_state",
              "fan_rpm"}

NoRet == [kind |-> "none", b |-> FALSE, n |-> 0, io |-> FALSE]

\* a file that fs::read_to_string cannot read: st is "missing" or "unreadable"
NoFile(st) == [st |-> st, text |-> <<>>]

\* a readable file and its content
File(text) == [st |-> "ok", text |-> text]

\* the probe before its first use, on mains power
ProbeIdle ==
    /\ ac_online = File(<< "1", "\n" >>)
    /\ supply = "none"

\* no update() is running
TickIdle ==
    /\ tick_pc = "idle"
    /\ tick_i = 0
    /\ tick_ls = <<>>
    /\ tick_board = << >>

\* a call site of the client: its line, the helper it calls, what it does
\* with the helper's Option, and the page it builds or serves
Site(line, helper, policy, page) ==
    [line |-> line, helper |-> helper, policy |-> policy, page |-> page]

NoSite == Site(0, "", "", "")

\* the settings client before its first request
ClientIdle ==
    /\ client = "running"
    /\ site = NoSite
    /\ replies = <<>>
    /\ held = "none"

ExtIdle == ProbeIdle /\ TickIdle /\ ClientIdle

\* the shim before its first use, on a machine with the driver loaded
SysIdle ==
    /\ dir = "found"
    /\ sysfs_path = "uninit"
    /\ scans = 0
    /\ files = [a \in ReadAttrs |-> << "0" >>]
    /\ attr = ""
    /\ warg = 0
    /\ ret = NoRet

\* get_map: any negative id asks for the global board
GlobalId == -1

\* KeyboardData::update_kbd: one write of the colour map, which may fail
MapWrite(board, ok) == [file |-> "key_colour_map", map |-> board, ok |-> ok]

\* KeyboardData::update_custom_mode: one write of the activation flag
CustomWrite(ok) == [file |-> "custom_frame_mode", map |-> <<>>, ok |-> ok]

\* EffectManager::new()
Init ==
    /\ layers = <<>>
    /\ last_update_ms = 0
    /\ render_board = NewBoard
    /\ now = 0
    /\ hw = <<>>
    /\ saved = EffectsDoc(<<>>)
    /\ arg = NoEffectsDoc
    /\ lastOp = "new"
    /\ panicked = FALSE
    /\ layer_id = GlobalId
    /\ SysIdle
    /\ ExtIdle

\* push_effect that puts the new layer at the bottom of the stack
push_effect_front(effect, mask) ==
    /\ ~panicked
    /\ Len(layers) < MaxLayers
    /\ layers' = << LayerNew(effect, mask) >> \o layers
    /\ hw' = <<>>
    /\ lastOp' = "push"
    /\ layer_id' = GlobalId
    /\ saved' = EffectsDoc(<<>>)
    /\ arg' = NoEffectsDoc
    /\ UNCHANGED << last_update_ms, render_board, now, panicked, othervars >>

\* EffectManager::push_effect(effect, mask)
push_effect(effect, mask) ==
    /\ ~panicked
    /\ Len(layers) < MaxLayers
    /\ layers' = Append(layers, LayerNew(effect, mask))
    /\ hw' = <<>>
    /\ lastOp' = "push"
    /\ layer_id' = GlobalId
    /\ saved' = EffectsDoc(<<>>)
    /\ arg' = NoEffectsDoc
    /\ UNCHANGED << last_update_ms, render_board, now, panicked, othervars >>

\* a pop that takes the oldest layer
PopLast_head(ls) == IF ls = <<>> THEN ls ELSE Tail(ls)

\* the layers after Vec::pop()
PopLast(ls) == IF ls = <<>> THEN ls ELSE SubSeq(ls, 1, Len(ls) - 1)

\* the emptiness test taken before the pop instead of after it
PopErases_before(ls) == ls = <<>>

\* pop_effect: `if self.layers.is_empty()` after the pop
PopErases(ls) == PopLast(ls) = <<>>

\* pop_effect that writes the board as the last layer left it
pop_effect_stale(ok1, ok2) ==
    /\ ~panicked
    /\ layers' = PopLast(layers)
    /\ IF PopErases(layers)
       THEN /\ hw' = << MapWrite(render_board, ok1), CustomWrite(ok2) >>
            /\ UNCHANGED render_board
       ELSE /\ hw' = <<>>
            /\ UNCHANGED render_board
    /\ lastOp' = "pop"
    /\ layer_id' = GlobalId
    /\ saved' = EffectsDoc(<<>>)
    /\ arg' = NoEffectsDoc
    /\ UNCHANGED << last_update_ms, now, panicked, othervars >>

\* pop_effect that sets custom mode before it writes the colour map
pop_effect_swapped(ok1, ok2) ==
    /\ ~panicked
    /\ layers' = PopLast(layers)
    /\ IF PopErases(layers)
       THEN /\ render_board' = set_kbd_colour(render_board, 0, 0, 0)
            /\ hw' = << CustomWrite(ok2), MapWrite(render_board', ok1) >>
       ELSE /\ hw' = <<>>
            /\ UNCHANGED render_board
    /\ lastOp' = "pop"
    /\ layer_id' = GlobalId
    /\ saved' = EffectsDoc(<<>>)
    /\ arg' = NoEffectsDoc
    /\ UNCHANGED << last_update_ms, now, panicked, othervars >>

\* EffectManager::pop_effect(laptop)
pop_effect(ok1, ok2) ==
    /\ ~panicked
    /\ layers' = PopLast(layers)
    /\ IF PopErases(layers)
       THEN /\ render_board' = set_kbd_colour(render_board, 0, 0, 0)
            /\ hw' = << MapWrite(render_board', ok1), CustomWrite(ok2) >>
       ELSE /\ hw' = <<>>
            /\ UNCHANGED render_board
    /\ lastOp' = "pop"
    /\ layer_id' = GlobalId
    /\ saved' = EffectsDoc(<<>>)
    /\ arg' = NoEffectsDoc
    /\ UNCHANGED << last_update_ms, now, panicked, othervars >>

\* update() that writes to the hardware only a board that has changed
update_lazy(ok1, ok2) ==
    /\ ~panicked
    /\ IF layers = <<>>
       THEN /\ hw' = <<>>
            /\ UNCHANGED << layers, render_board, last_update_ms, now >>
       ELSE /\ now < MaxTime
            /\ render_board' = Composite(render_board, layers, 1)
            /\ layers' = StepAll(layers)
            /\ now' = now + 1
            /\ last_update_ms' = now'
            /\ hw' = IF render_board' = render_board THEN <<>>
                     ELSE << MapWrite(render_board', ok1), CustomWrite(ok2) >>
    /\ lastOp' = "update"
    /\ layer_id' = GlobalId
    /\ saved' = EffectsDoc(<<>>)
    /\ arg' = NoEffectsDoc
    /\ UNCHANGED << panicked, othervars >>

\* update() without the early return for a manager that holds no layer
update_eager(ok1, ok2) ==
    /\ ~panicked
    /\ IF layers = <<>>
       THEN /\ last_update_ms' = now
            /\ hw' = << MapWrite(render_board, ok1), CustomWrite(ok2) >>
            /\ UNCHANGED << layers, render_board, now >>
       ELSE /\ now < MaxTime
            /\ render_board' = Composite(render_board, layers, 1)
            /\ layers' = StepAll(layers)
            /\ now' = now + 1
            /\ last_update_ms' = now'
            /\ hw' = << MapWrite(render_board', ok1), CustomWrite(ok2) >>
    /\ lastOp' = "update"
    /\ layer_id' = GlobalId
    /\ saved' = EffectsDoc(<<>>)
    /\ arg' = NoEffectsDoc
    /\ UNCHANGED << panicked, othervars >>

\* EffectManager::update(laptop)
update(ok1, ok2) ==
    /\ ~panicked
    /\ IF layers = <<>>
       THEN /\ hw' = <<>>
            /\ UNCHANGED << layers, render_board, last_update_ms, now >>
       ELSE /\ now < MaxTime
            /\ render_board' = Composite(render_board, layers, 1)
            /\ layers' = StepAll(layers)
            /\ now' = now + 1
            /\ last_update_ms' = now'
            /\ hw' = << MapWrite(render_board', ok1), CustomWrite(ok2) >>
    /\ lastOp' = "update"
    /\ layer_id' = GlobalId
    /\ saved' = EffectsDoc(<<>>)
    /\ arg' = NoEffectsDoc
    /\ UNCHANGED << panicked, othervars >>

\* save() that also writes the board to the hardware
Save_flush ==
    /\ ~panicked
    /\ saved' = save(layers)
    /\ hw' = << MapWrite(render_board, TRUE), CustomWrite(TRUE) >>
    /\ lastOp' = "save"
    /\ layer_id' = GlobalId
    /\ arg' = NoEffectsDoc
    /\ UNCHANGED << layers, last_update_ms, render_board, now, panicked, othervars >>

\* EffectManager::save()
Save ==
    /\ ~panicked
    /\ saved' = save(layers)
    /\ hw' = <<>>
    /\ lastOp' = "save"
    /\ layer_id' = GlobalId
    /\ arg' = NoEffectsDoc
    /\ UNCHANGED << layers, last_update_ms, render_board, now, panicked, othervars >>

\* EffectManager::load_from_save(json)
Load(json) ==
    /\ ~panicked
    /\ Len(load_from_save(layers, json).layers) <= MaxLayers
    /\ LET r == load_from_save(layers, json)
       IN  /\ layers' = r.layers
           /\ panicked' = r.panicked
    /\ arg' = json
    /\ hw' = <<>>
    /\ lastOp' = "load"
    /\ layer_id' = GlobalId
    /\ saved' = EffectsDoc(<<>>)
    /\ UNCHANGED << last_update_ms, render_board, now, othervars >>

\* get_map: `self.layers[layer_id as usize]` panics when the index is not
\* below the length
IndexPanics(ls, id) == id >= 0 /\ id >= Len(ls)

\* get_map that leaves the board erased
get_map_wipe(id) ==
    /\ ~panicked
    /\ panicked' = IndexPanics(layers, id)
    /\ layer_id' = id
    /\ hw' = <<>>
    /\ lastOp' = "get_map"
    /\ saved' = EffectsDoc(<<>>)
    /\ arg' = NoEffectsDoc
    /\ render_board' = set_kbd_colour(render_board, 0, 0, 0)
    /\ UNCHANGED << layers, last_update_ms, now, othervars >>

\* EffectManager::get_map(layer_id): reads the board or one layer
get_map(id) ==
    /\ ~panicked
    /\ panicked' = IndexPanics(layers, id)
    /\ layer_id' = id
    /\ hw' = <<>>
    /\ lastOp' = "get_map"
    /\ saved' = EffectsDoc(<<>>)
    /\ arg' = NoEffectsDoc
    /\ UNCHANGED << layers, last_update_ms, render_board, now, othervars >>

\* the ids a query is made with
QueryIds == GlobalId .. MaxLayers

Next ==
    \/ \E l \in LayerPool : push_effect(l.effect, l.key_mask)
    \/ \E ok1 \in BOOLEAN, ok2 \in BOOLEAN : pop_effect(ok1, ok2)
    \/ \E ok1 \in BOOLEAN, ok2 \in BOOLEAN : update(ok1, ok2)
    \/ Save
    \/ \E json \in Docs \cup {saved} : Load(json)
    \/ \E id \in QueryIds : get_map(id)

Spec == Init /\ [][Next]_vars

(***************************************************************************)
(* The tick task and the command task on one manager.  update() is taken   *)
(* one step of its body at a time; a command runs as one step, when it can *)
(* get at the manager.                                                     *)
(***************************************************************************)
\* a manager whose operations could be entered while update() is running
Exclusive_shared(pc) == TRUE

\* every operation takes `&mut self`: it runs only while no other operation
\* holds the manager
Exclusive(pc) == pc = "idle"

\* update() is entered: the emptiness test, then the loop starts
TickBegin ==
    /\ ~panicked
    /\ tick_pc = "idle"
    /\ Exclusive(tick_pc)
    /\ IF layers = <<>>
       THEN /\ lastOp' = "update"
            /\ UNCHANGED tickvars
       ELSE /\ now < MaxTime
            /\ tick_pc' = "loop"
            /\ tick_i' = 1
            /\ tick_ls' = layers
            /\ tick_board' = render_board
            /\ lastOp' = "update_begin"
    /\ hw' = <<>>
    /\ saved' = EffectsDoc(<<>>)
    /\ arg' = NoEffectsDoc
    /\ layer_id' = GlobalId
    /\ UNCHANGED << layers, last_update_ms, render_board, now, panicked, sysvars,
                    probevars, clientvars >>

\* one turn of the loop of update(): the layer is updated and painted
TickLayer ==
    /\ tick_pc = "loop"
    /\ IF tick_i <= Len(layers)
       THEN /\ render_board' = Paint(render_board, layers[tick_i])
            /\ layers' = [layers EXCEPT ![tick_i] = LayerStep(layers[tick_i])]
            /\ tick_i' = tick_i + 1
            /\ UNCHANGED tick_pc
       ELSE /\ tick_pc' = "map"
            /\ UNCHANGED << render_board, layers, tick_i >>
    /\ lastOp' = "update_layer"
    /\ UNCHANGED << last_update_ms, now, hw, saved, arg, panicked, layer_id,
                    tick_ls, tick_board, sysvars, probevars, clientvars >>

\* update() after the loop: the clock is read and the colour map is written
TickMap(ok1) ==
    /\ tick_pc = "map"
    /\ now' = now + 1
    /\ last_update_ms' = now'
    /\ hw' = << MapWrite(render_board, ok1) >>
    /\ tick_pc' = "custom"
    /\ lastOp' = "update_kbd"
    /\ UNCHANGED << layers, render_board, saved, arg, panicked, layer_id,
                    tick_i, tick_ls, tick_board, sysvars, probevars, clientvars >>

\* the last statement of update(): custom mode is set, update() returns
TickCustom(ok2) ==
    /\ tick_pc = "custom"
    /\ hw' = Append(hw, CustomWrite(ok2))
    /\ tick_pc' = "idle"
    /\ tick_i' = 0
    /\ tick_ls' = <<>>
    /\ tick_board' = <<>>
    /\ lastOp' = "update"
    /\ UNCHANGED << layers, last_update_ms, render_board, now, saved, arg, panicked,
                    layer_id, sysvars, probevars, clientvars >>

\* the documents the command task loads
CmdDocs == {EffectsDoc(<< GoodRec >>), EffectsDoc(<< GoodRec, WaveRec >>)}

\* the command task runs one command on the manager
Command ==
    /\ Exclusive(tick_pc)
    /\ \/ \E l \in LayerPool : push_effect(l.effect, l.key_mask)
       \/ \E ok1 \in BOOLEAN, ok2 \in BOOLEAN : pop_effect(ok1, ok2)
       \/ Save
       \/ \E json \in CmdDocs \cup {saved} : Load(json)

NextConc ==
    \/ TickBegin
    \/ TickLayer
    \/ \E ok1 \in BOOLEAN : TickMap(ok1)
    \/ \E ok2 \in BOOLEAN : TickCustom(ok2)
    \/ Command

SpecConc == Init /\ [][NextConc]_vars

(***************************************************************************)
(* The driver shim (driver_sysfs.rs)                                       *)
(***************************************************************************)
\* SYSFS_PATH after a use: the first use runs the scan of DRIVER_DIR, whose
\* unwrap()s panic unless an entry with the prefix is found; a panic in the
\* initialiser poisons the cell for good
PathAfter(path, d) ==
    IF path = "uninit" THEN (IF d = "found" THEN "some" ELSE "poisoned") ELSE path

\* only the first use scans
ScansAfter(path, n) == IF path = "uninit" THEN n + 1 ELSE n

\* the call panicked, before (io FALSE) or after (io TRUE) it got at its file
Panic(io) == [kind |-> "panic", b |-> FALSE, n |-> 0, io |-> io]

\* the call returned: the flag of a write or the number of a read
Returned(b, n, io) == [kind |-> "ok", b |-> b, n |-> n, io |-> io]

\* the use of SYSFS_PATH every accessor starts with
UsePath ==
    /\ sysfs_path' = PathAfter(sysfs_path, dir)
    /\ scans' = ScansAfter(sysfs_path, scans)
    /\ UNCHANGED << dir, kbdvars, extvars >>

\* get_path()
get_path ==
    /\ UsePath
    /\ ret' = IF sysfs_path' = "some" THEN Returned(TRUE, 0, FALSE) ELSE Panic(FALSE)
    /\ lastOp' = "get_path"
    /\ attr' = ""
    /\ warg' = 0
    /\ UNCHANGED files

\* write_to_sysfs that reports success whatever fs::write returned
write_to_sysfs_deaf(sysfs_name, val, text, io_ok) ==
    /\ UsePath
    /\ IF sysfs_path' = "some"
       THEN /\ ret' = Returned(TRUE, 0, io_ok)
            /\ files' = IF io_ok /\ sysfs_name \in ReadAttrs
                        THEN [files EXCEPT ![sysfs_name] = text] ELSE files
       ELSE /\ ret' = Panic(FALSE)
            /\ UNCHANGED files
    /\ lastOp' = "write"
    /\ attr' = sysfs_name
    /\ warg' = val

\* write_to_sysfs(sysfs_name, val_as_str) / write_to_sysfs_raw: the path is
\* unwrapped, then fs::write succeeds (io_ok) or fails
write_to_sysfs(sysfs_name, val, text, io_ok) ==
    /\ UsePath
    /\ IF sysfs_path' = "some"
       THEN /\ ret' = Returned(io_ok, 0, io_ok)
            /\ files' = IF io_ok /\ sysfs_name \in ReadAttrs
                        THEN [files EXCEPT ![sysfs_name] = text] ELSE files
       ELSE /\ ret' = Panic(FALSE)
            /\ UNCHANGED files
    /\ lastOp' = "write"
    /\ attr' = sysfs_name
    /\ warg' = val

\* read_from_sysfs that keeps the final newline
read_from_sysfs_notrim(path, text, nl, io_ok) ==
    IF path # "some" THEN [kind |-> "panic", some |-> FALSE, s |-> <<>>]
    ELSE IF ~io_ok THEN [kind |-> "ok", some |-> FALSE, s |-> <<>>]
    ELSE [kind |-> "ok", some |-> TRUE, s |-> text \o nl]

\* read_from_sysfs(sysfs_name): None if the read fails, else the text the
\* driver shows (with or without a final newline), newlines trimmed
read_from_sysfs(path, text, nl, io_ok) ==
    IF path # "some" THEN [kind |-> "panic", some |-> FALSE, s |-> <<>>]
    ELSE IF ~io_ok THEN [kind |-> "ok", some |-> FALSE, s |-> <<>>]
    ELSE [kind |-> "ok", some |-> TRUE, s |-> trim_end_newlines(text \o nl)]

\* the shape all numeric readers share: Some(x) => x.parse().unwrap(), None => 0
ReadNumber(sysfs_name, parsed, x) ==
    /\ UsePath
    /\ ret' = IF x.kind = "panic" THEN Panic(FALSE)
              ELSE IF ~x.some THEN Returned(FALSE, 0, FALSE)
              ELSE IF parsed.ok THEN Returned(FALSE, parsed.val, TRUE)
              ELSE Panic(TRUE)
    /\ lastOp' = "read"
    /\ attr' = sysfs_name
    /\ warg' = 0
    /\ UNCHANGED files

read_u8(sysfs_name, nl, io_ok) ==
    LET x == read_from_sysfs(PathAfter(sysfs_path, dir), files[sysfs_name], nl, io_ok)
    IN  ReadNumber(sysfs_name, parse_u8(x.s), x)

write_rgb_map(map, io_ok) == write_to_sysfs("key_colour_map", 0, map, io_ok)

write_custom_mode_frame(v, io_ok) == write_to_sysfs("custom_frame_mode", v, FmtInt(v), io_ok)

write_brightness(lvl, io_ok) == write_to_sysfs("brightness", lvl, FmtInt(lvl), io_ok)

read_brightness(nl, io_ok) == read_u8("brightness", nl, io_ok)

write_power(mode, io_ok) == write_to_sysfs("power_mode", mode, FmtInt(mode), io_ok)

write_cpu_boost(v, io_ok) == write_to_sysfs("cpu_boost", v, FmtInt(v), io_ok)

write_gpu_boost(v, io_ok) == write_to_sysfs("gpu_boost", v, FmtInt(v), io_ok)

write_logo_state(v, io_ok) == write_to_sysfs("logo_led_state", v, FmtInt(v), io_ok)

read_logo_state(nl, io_ok) == read_u8("logo_led_state", nl, io_ok)

read_power(nl, io_ok) == read_u8("power_mode", nl, io_ok)

read_cpu_boost(nl, io_ok) == read_u8("cpu_boost", nl, io_ok)

read_gpu_boost(nl, io_ok) == read_u8("gpu_boost", nl, io_ok)

write_fan_rpm(rpm, io_ok) == write_to_sysfs("fan_rpm", rpm, FmtInt(rpm), io_ok)

read_fan_rpm(nl, io_ok) ==
    LET x == read_from_sysfs(PathAfter(sysfs_path, dir), files["fan_rpm"], nl, io_ok)
    IN  ReadNumber("fan_rpm", parse_i32(x.s), x)

\* what a scan of DRIVER_DIR can meet: no such directory, no entry with the
\* prefix, an entry that cannot be read, or the device's entry
DirStates == {"missing", "no_match", "bad_entry", "found"}

\* texts the driver may show that no write of the shim produced
OddTexts == { <<>>, << "a", "b" >>, << "3", "0", "0" >> }

BrightnessVals == {0, 7, 50, 100, 255}

PowerVals == {4}

BoostVals == {3}

LogoVals == {1}

FanVals == {-1, 0, 5000}

Newlines == { <<>>, << "\n" >> }

\* the daemon starts: any state of the driver directory, every attribute at
\* "0" but at most one that shows an odd text
InitSysfs ==
    /\ layers = <<>>
    /\ last_update_ms = 0
    /\ render_board = NewBoard
    /\ now = 0
    /\ hw = <<>>
    /\ saved = EffectsDoc(<<>>)
    /\ arg = NoEffectsDoc
    /\ lastOp = "new"
    /\ panicked = FALSE
    /\ layer_id = GlobalId
    /\ dir \in DirStates
    /\ sysfs_path = "uninit"
    /\ scans = 0
    /\ \E odd \in ReadAttrs \cup {""}, t \in OddTexts :
          files = [a \in ReadAttrs |-> IF a = odd THEN t ELSE << "0" >>]
    /\ attr = ""
    /\ warg = 0
    /\ ret = NoRet
    /\ ExtIdle

NextSysfs ==
    \/ get_path
    \/ \E io_ok \in BOOLEAN : write_rgb_map(<< 0, 0, 0 >>, io_ok)
    \/ \E v \in {0, 1}, io_ok \in BOOLEAN : write_custom_mode_frame(v, io_ok)
    \/ \E v \in BrightnessVals, io_ok \in BOOLEAN : write_brightness(v, io_ok)
    \/ \E nl \in Newlines, io_ok \in BOOLEAN : read_brightness(nl, io_ok)
    \/ \E v \in PowerVals, io_ok \in BOOLEAN : write_power(v, io_ok)
    \/ \E v \in BoostVals, io_ok \in BOOLEAN : write_cpu_boost(v, io_ok)
    \/ \E v \in BoostVals, io_ok \in BOOLEAN : write_gpu_boost(v, io_ok)
    \/ \E v \in LogoVals, io_ok \in BOOLEAN : write_logo_state(v, io_ok)
    \/ \E nl \in Newlines, io_ok \in BOOLEAN : read_logo_state(nl, io_ok)
    \/ \E nl \in Newlines, io_ok \in BOOLEAN : read_power(nl, io_ok)
    \/ \E nl \in Newlines, io_ok \in BOOLEAN : read_cpu_boost(nl, io_ok)
    \/ \E nl \in Newlines, io_ok \in BOOLEAN : read_gpu_boost(nl, io_ok)
    \/ \E v \in FanVals, io_ok \in BOOLEAN : write_fan_rpm(v, io_ok)
    \/ \E nl \in Newlines, io_ok \in BOOLEAN : read_fan_rpm(nl, io_ok)

SpecSysfs == InitSysfs /\ [][NextSysfs]_vars

(***************************************************************************)
(* The power-source probe (driver_sysfs.rs, read_power_source)             *)
(***************************************************************************)
\* the match of read_power_source taken on the untrimmed text
power_source_of_notrim(f) ==
    IF f.st # "ok" THEN "UNK"
    ELSE IF f.text = << "1" >> THEN "AC"
    ELSE IF f.text = << "0" >> THEN "BAT"
    ELSE "UNK"

\* the match of read_power_source: Err of read_to_string gives UNK, Ok(s)
\* is matched on s.trim_end_matches('\n')
power_source_of(f) ==
    IF f.st # "ok" THEN "UNK"
    ELSE IF trim_end_newlines(f.text) = << "1" >> THEN "AC"
    ELSE IF trim_end_newlines(f.text) = << "0" >> THEN "BAT"
    ELSE "UNK"

\* read_power_source(): reads the probe file by its absolute path, without
\* any use of SYSFS_PATH
read_power_source ==
    /\ supply' = power_source_of(ac_online)
    /\ lastOp' = "read_power_source"
    /\ UNCHANGED << kbdvars, sysvars, ac_online, tickvars, clientvars >>

\* texts the probe file may show
ProbeTexts ==
    { << "1", "\n" >>, << "0", "\n" >>, << "1" >>, << "0" >>, <<>>, << "\n" >>,
      << "2", "\n" >>, << "1", "0", "\n" >>, << "1", "\n", "\n" >>, << " ", "1", "\n" >> }

ProbeFiles == {NoFile("missing"), NoFile("unreadable")} \cup {File(t) : t \in ProbeTexts}

\* the daemon starts: any state of the driver directory and of the probe file
InitProbe ==
    /\ layers = <<>>
    /\ last_update_ms = 0
    /\ render_board = NewBoard
    /\ now = 0
    /\ hw = <<>>
    /\ saved = EffectsDoc(<<>>)
    /\ arg = NoEffectsDoc
    /\ lastOp = "new"
    /\ panicked = FALSE
    /\ layer_id = GlobalId
    /\ dir \in DirStates
    /\ sysfs_path = "uninit"
    /\ scans = 0
    /\ files = [a \in ReadAttrs |-> << "0" >>]
    /\ attr = ""
    /\ warg = 0
    /\ ret = NoRet
    /\ ac_online \in ProbeFiles
    /\ supply = "none"
    /\ TickIdle
    /\ ClientIdle

NextProbe ==
    \/ get_path
    \/ read_power_source

SpecProbe == InitProbe /\ [][NextProbe]_vars

(***************************************************************************)
(* The settings client (razer-settings.rs): its request helpers and the    *)
(* places that call them                                                   *)
(***************************************************************************)
\* what one request of the client can meet: the response of its own
\* variant, a response of another variant, no response (send_to_daemon or
\* try_bind failed otherwise), or no socket at all (ErrorKind::NotFound)
Replies == {"match", "mismatch", "none", "no_daemon"}

\* the number of requests a helper sends: get_power asks for the power
\* level, the CPU boost and the GPU boost in turn
Requests(helper) == IF helper = "get_power" THEN 3 ELSE 1

RECURSIVE Helper(_, _, _)
\* a request helper from its request i on: send_data crashes the client
\* when the socket is not found and gives None on other errors (`?`
\* returns it); a response of another variant is printed and gives None
Helper(rs, i, n) ==
    IF i > n THEN "some"
    ELSE IF rs[i] = "no_daemon" THEN "crash"
    ELSE IF rs[i] = "match" THEN Helper(rs, i + 1, n)
    ELSE "none"

\* Option::or_crash(msg): None ends the process
or_crash(out) == IF out = "none" THEN "crashed" ELSE "running"

\* the client after a call whose helper returned out
After(out, policy) ==
    IF out = "crash" THEN "crashed"
    ELSE IF policy = "or_crash" THEN or_crash(out)
    ELSE "running"

\* one call site runs: its helper sends its requests and gets rs
Call(s, rs) ==
    /\ client = "running"
    /\ site' = s
    /\ replies' = rs
    /\ held' = IF Helper(rs, 1, Requests(s.helper)) = "some" THEN "some" ELSE "none"
    /\ client' = After(Helper(rs, 1, Requests(s.helper)), s.policy)
    /\ lastOp' = "call"
    /\ UNCHANGED << kbdvars, sysvars, probevars, tickvars >>

\* helper(..).or_crash(msg)
call_or_crash(s, rs) == s.policy = "or_crash" /\ Call(s, rs)

\* let x = helper(..); ... if let Some(x) = x { the section is built }
call_if_let(s, rs) == s.policy = "if_let" /\ Call(s, rs)

\* helper(..); with the Option dropped
call_ignored(s, rs) == s.policy = "ignored" /\ Call(s, rs)

\* main (line 288)
MainSites == {Site(288, "get_device_name", "or_crash", "main")}

\* make_page(ac) and the handlers it connects (lines 380-597)
PageSites(page) ==
    {Site(381, "get_fan_speed", "or_crash", page),
     Site(382, "get_brightness", "or_crash", page),
     Site(383, "get_power", "if_let", page),
     Site(392, "get_logo", "or_crash", page),
     Site(405, "set_logo", "ignored", page),
     Site(406, "get_logo", "or_crash", page),
     Site(462, "set_power", "or_crash", page),
     Site(464, "get_power", "or_crash", page),
     Site(488, "set_power", "or_crash", page),
     Site(490, "get_power", "or_crash", page),
     Site(506, "set_power", "or_crash", page),
     Site(508, "get_power", "or_crash", page),
     Site(545, "set_fan_speed", "or_crash", page),
     Site(546, "get_fan_speed", "or_crash", page),
     Site(561, "set_fan_speed", "or_crash", page),
     Site(571, "get_fan_speed", "or_crash", page),
     Site(596, "set_brightness", "or_crash", page),
     Site(597, "get_brightness", "or_crash", page)}

\* make_general_page and the handlers it connects (lines 609-775)
GeneralSites ==
    {Site(610, "get_bho", "if_let", "general"),
     Site(668, "set_effect", "or_crash", "general"),
     Site(671, "set_effect", "or_crash", "general"),
     Site(678, "set_effect", "or_crash", "general"),
     Site(682, "set_effect", "or_crash", "general"),
     Site(739, "set_bho", "or_crash", "general"),
     Site(741, "get_bho", "or_crash", "general"),
     Site(758, "set_bho", "ignored", "general"),
     Site(760, "get_bho", "or_crash", "general")}

\* main builds make_page(true), make_page(false) and make_general_page()
CallSites == MainSites \cup PageSites("ac") \cup PageSites("battery") \cup GeneralSites

\* the answers to the n requests of a helper: all but the last are its own
\* variant, since the helper stops at the first other answer
ReplySeqs(n) ==
    {rs \in SeqsUpTo(Replies, n) :
        /\ rs # <<>>
        /\ \A i \in 1 .. Len(rs) - 1 : rs[i] = "match"
        /\ Len(rs) < n => rs[Len(rs)] # "match"}

NextClient ==
    \/ \E s \in CallSites : \E rs \in ReplySeqs(Requests(s.helper)) : call_or_crash(s, rs)
    \/ \E s \in CallSites : \E rs \in ReplySeqs(Requests(s.helper)) : call_if_let(s, rs)
    \/ \E s \in CallSites : \E rs \in ReplySeqs(Requests(s.helper)) : call_ignored(s, rs)

SpecClient == Init /\ [][NextClient]_vars

(***************************************************************************)
(* Properties of the effect manager (checked under Spec)                   *)
(***************************************************************************)
Max(S) == CHOOSE x \in S : \A y \in S : y <= x

AllBlack(board) == \A i \in 1 .. KEYS : board[i] = Black

\* the step is an update() of a manager that holds layers
UpdateStep == lastOp' = "update" /\ layers # <<>> /\ now' = now + 1

\* the layers whose mask is true at key position p
Covering(ls, p) == { i \in 1 .. Len(ls) : ls[i].key_mask[p + 1] }

\* C1: after one update() every key holds the colour that the most recently
\* pushed layer covering it produced in this tick, and a key that no layer
\* covers keeps the colour it had before the update.
C1_LastCoveringLayerWins ==
    [][UpdateStep =>
        \A p \in Keys :
            IF Covering(layers, p) = {}
            THEN get_key_at(render_board', p) = get_key_at(render_board, p)
            ELSE get_key_at(render_board', p)
                    = get_key_at(LayerFrame(layers[Max(Covering(layers, p))]), p)]_vars

\* Static red on keys 0..2 under a Static Gradient on keys 1..3, after a tick
C1_Witness ==
    /\ lastOp = "update"
    /\ Len(layers) = 2
    /\ layers[1].effect.name = "Static" /\ layers[1].key_mask = MaskOf({0, 1, 2})
    /\ layers[2].effect.name = "Static Gradient" /\ layers[2].key_mask = MaskOf({1, 2, 3})
    /\ get_key_at(render_board, 0) = Red
    /\ get_key_at(render_board, 1) = GradientAt(layers[2].effect.args, 1)
    /\ get_key_at(render_board, 1) # Red
    /\ get_key_at(render_board, 3) = GradientAt(layers[2].effect.args, 3)
    /\ get_key_at(render_board, 4) = Black

\* C2: pop_layer() on an empty manager is a no-op: the layer sequence stays
\* empty, the board is unchanged and no hardware write is issued.
C2_PopOnEmptyIsNoop ==
    [][(lastOp' = "pop" /\ layers = <<>>) =>
        (layers' = <<>> /\ render_board' = render_board /\ hw' = <<>>)]_vars

\* C3: a pop that removes the last remaining layer leaves all 90 keys black
\* and issues, within the pop, the colour-map write of that all-black frame
\* followed by the custom-frame-mode write.
C3_PopLastBlacksAndPushes ==
    [][(lastOp' = "pop" /\ Len(layers) = 1) =>
        /\ layers' = <<>>
        /\ AllBlack(render_board')
        /\ Len(hw') = 2
        /\ hw'[1].file = "key_colour_map" /\ hw'[1].map = render_board'
        /\ hw'[2].file = "custom_frame_mode"
        /\ now' = now]_vars

\* a pop has emptied the stack after a frame was composed, and pushed black
C3_Witness ==
    /\ lastOp = "pop"
    /\ layers = <<>>
    /\ now >= 1
    /\ AllBlack(render_board)
    /\ Len(hw) = 2 /\ hw[1].ok /\ AllBlack(hw[1].map)

\* two layer sequences agree in effect name, parameter bytes and mask
SameLayers(a, b) ==
    /\ Len(a) = Len(b)
    /\ \A i \in 1 .. Len(a) :
        /\ a[i].effect.name = b[i].effect.name
        /\ a[i].effect.args = b[i].effect.args
        /\ a[i].key_mask = b[i].key_mask

\* C4: loading what save() returned into a manager with no layers gives a
\* layer sequence of the same length with, position by position, the same
\* effect name, parameter bytes and 90-entry mask.
C4_SaveLoadRoundTrip ==
    lastOp = "save" =>
        LET r == load_from_save(<<>>, saved)
        IN  /\ ~r.panicked
            /\ SameLayers(r.layers, layers)
            /\ \A i \in 1 .. Len(r.layers) : Len(r.layers[i].key_mask) = KEYS

\* a saved stack of two different layers, the older one mid-animation
C4_Witness ==
    /\ lastOp = "save"
    /\ Len(layers) = 2
    /\ layers[1].effect.name # layers[2].effect.name
    /\ layers[1].key_mask # layers[2].key_mask
    /\ layers[1].effect.phase > 0
    /\ Len(saved.effects.a) = 2

\* the step is a load_from_save() of a document with a list of records
LoadStep == lastOp' = "load" /\ arg'.effects.t = "arr"

\* a record as the persisted format defines it: a name of a registered
\* effect, parameter bytes and a mask of one boolean per key
IsValidRec(rec) ==
    /\ rec.name.t = "str" /\ rec.name.s \in EffectNames
    /\ rec.args.t = "bytes"
    /\ rec.key_mask.t = "bools" /\ Len(rec.key_mask.m) = KEYS

\* a record that is valid but for the length of its mask
IsBadLenRec(rec) ==
    /\ rec.name.t = "str" /\ rec.name.s \in EffectNames
    /\ rec.args.t = "bytes"
    /\ rec.key_mask.t = "bools" /\ Len(rec.key_mask.m) # KEYS

ValidAt(recs) == { i \in 1 .. Len(recs) : IsValidRec(recs[i]) }

BadLenAt(recs) == { i \in 1 .. Len(recs) : IsBadLenRec(recs[i]) }

\* C5: a load of N valid records and one record whose mask length is not 90,
\* wherever it stands, adds exactly N layers.
C5_BadLengthRecordSkipped ==
    [][(/\ LoadStep
        /\ Cardinality(BadLenAt(arg'.effects.a)) = 1
        /\ Cardinality(ValidAt(arg'.effects.a)) = Len(arg'.effects.a) - 1) =>
        /\ ~panicked'
        /\ Len(layers') = Len(layers) + Len(arg'.effects.a) - 1]_vars

\* a load of a bad-length record followed by a valid one has added one layer
C5_Witness ==
    /\ lastOp = "load"
    /\ arg.effects.t = "arr"
    /\ Len(arg.effects.a) = 2
    /\ IsBadLenRec(arg.effects.a[1])
    /\ IsValidRec(arg.effects.a[2])
    /\ Len(layers) = 2
    /\ layers[2].effect.name = arg.effects.a[2].name.s

\* the layer a valid record stands for
LayerOf(rec) == [key_mask |-> rec.key_mask.m, effect |-> EffectNew(rec.name.s, rec.args.b)]

\* the layers of the valid records of a list, in input order
LayersOfValid(recs) ==
    LET good == SelectSeq(recs, IsValidRec)
    IN  [i \in 1 .. Len(good) |-> LayerOf(good[i])]

\* C6: after load(records) the layers that existed before are an unchanged
\* prefix and the layers of the valid records follow it in input order.
C6_LoadAppendsValidInOrder ==
    [][LoadStep => layers' = layers \o LayersOfValid(arg'.effects.a)]_vars

\* C7: a load of a document without an `effects` field returns normally and
\* leaves the layer sequence and the board as they were.
C7_MissingEffectsField ==
    [][(lastOp' = "load" /\ is_null(arg'.effects)) =>
        (~panicked' /\ layers' = layers /\ render_board' = render_board)]_vars

\* such a load has run on a manager that holds a composed frame and layers
C7_Witness ==
    /\ lastOp = "load"
    /\ is_null(arg.effects)
    /\ ~panicked
    /\ Len(layers) >= 1
    /\ ~AllBlack(render_board)

\* C8: whatever is wrong with one record (a missing field, a field of the
\* wrong type, a wrong mask length, an unknown name), the load completes and
\* every valid record before and after it has become a layer.
C8_MalformedRecordNeverAborts ==
    [][(LoadStep /\ ValidAt(arg'.effects.a) # DOMAIN arg'.effects.a) =>
        /\ ~panicked'
        /\ Len(layers') = Len(layers) + Cardinality(ValidAt(arg'.effects.a))]_vars

(***************************************************************************)
(* Properties of the driver shim (checked under SpecSysfs)                 *)
(***************************************************************************)
Accessors == {"read", "write", "get_path"}

\* C9: with no resolvable attribute directory every accessor ends by
\* reporting the failure to its caller, none panics, and the directory is
\* scanned at most once.
C9_NoDeviceIsReported ==
    (dir # "found" /\ lastOp \in Accessors) => (ret.kind # "panic" /\ scans <= 1)

\* C10: a write accessor that returned true, followed by the read accessor
\* of the same attribute whose file read succeeds, returns the value written;
\* for brightness, power mode, CPU boost, GPU boost, logo state and fan RPM.
C10_WriteThenRead ==
    [][(/\ lastOp = "write" /\ ret.kind = "ok" /\ ret.b /\ attr \in ReadAttrs
        /\ lastOp' = "read" /\ attr' = attr /\ ret'.io) =>
        (ret'.kind = "ok" /\ ret'.n = warg)]_vars

\* brightness 100 was written and read back
C10_Witness ==
    /\ lastOp = "read"
    /\ attr = "brightness"
    /\ ret.kind = "ok" /\ ret.io
    /\ ret.n = 100
    /\ files["brightness"] = << "1", "0", "0" >>

\* the text of an attribute file parses as the number type of its reader
Parses(a, text) ==
    IF a = "fan_rpm" THEN parse_i32(trim_end_newlines(text)).ok
    ELSE parse_u8(trim_end_newlines(text)).ok

\* C11: with the directory resolved, a numeric reader returns 0 both when
\* its file cannot be read and when the text is no number of its type, and
\* it never panics.
C11_ReadFallsBackToZero ==
    (lastOp = "read" /\ sysfs_path = "some") =>
        /\ ret.kind = "ok"
        /\ (~ret.io \/ ~Parses(attr, files[attr])) => ret.n = 0

\* C12: with the directory resolved, a write accessor returns true exactly
\* when the file write succeeded, never panics, and a failed write leaves
\* every attribute as it was.
C12_WriteReportsOutcome ==
    [][(lastOp' = "write" /\ sysfs_path' = "some") =>
        /\ ret'.kind = "ok"
        /\ ret'.b = ret'.io
        /\ ~ret'.io => files' = files
        /\ \A a \in ReadAttrs \ {attr'} : files'[a] = files[a]]_vars

\* a write has failed after another attribute had been set
C12_Witness ==
    /\ lastOp = "write"
    /\ attr = "brightness"
    /\ ret.kind = "ok" /\ ~ret.b /\ ~ret.io
    /\ warg = 50
    /\ files["brightness"] = << "7" >>
    /\ files["fan_rpm"] = << "5", "0", "0", "0" >>

\* C13: the probe answers AC exactly when the text of the probe file
\* without its trailing newlines is "1", BAT exactly when it is "0", and UNK
\* for any other text and for a missing or unreadable file; it answers so
\* whatever the scan of the driver directory did, and it neither uses nor
\* changes the resolved directory.
C13_ProbeReadsItsOwnFile ==
    [][lastOp' = "read_power_source" =>
        /\ supply' \in {"AC", "BAT", "UNK"}
        /\ supply' = "AC" <=>
              (ac_online.st = "ok" /\ trim_end_newlines(ac_online.text) = << "1" >>)
        /\ supply' = "BAT" <=>
              (ac_online.st = "ok" /\ trim_end_newlines(ac_online.text) = << "0" >>)
        /\ sysfs_path' = sysfs_path
        /\ ret' = ret]_vars

\* the probe has answered AC from "1\n" after the scan of a missing driver
\* directory had panicked
C13_Witness ==
    /\ lastOp = "read_power_source"
    /\ dir = "missing"
    /\ sysfs_path = "poisoned"
    /\ ret.kind = "panic"
    /\ ac_online = File(<< "1", "\n" >>)
    /\ supply = "AC"

(***************************************************************************)
(* Further properties of the effect manager (checked under Spec)           *)
(***************************************************************************)
\* C14: get_map with an id that is not negative and not below the number
\* of layers does not panic and leaves the layers and the board unchanged.
C14_QueryOutOfRangeIsChecked ==
    [][(lastOp' = "get_map" /\ layer_id' >= 0 /\ layer_id' >= Len(layers)) =>
        /\ ~panicked'
        /\ layers' = layers
        /\ render_board' = render_board]_vars

\* the steps that belong to update()
TickOps == {"update_layer", "update_kbd", "update"}

\* C15: with update() run step by step next to the commands, no push, pop,
\* save or load takes effect while an update() is running, and the colour
\* map an update() writes to the hardware is the composite of the layers as
\* they all were at the instant the update() began, each updated once.
C15_OperationsAreAtomic ==
    [][/\ tick_pc # "idle" => lastOp' \in TickOps
       /\ tick_pc # "idle" => Len(layers') = Len(tick_ls)
       /\ lastOp' = "update_kbd" =>
            /\ layers' = StepAll(tick_ls)
            /\ hw'[1].map = Composite(tick_board, tick_ls, 1)]_vars

\* the second update() of two layers has written its colour map, after
\* commands had changed the layers between the two updates
C15_Witness ==
    /\ lastOp = "update_kbd"
    /\ tick_pc = "custom"
    /\ now = 2
    /\ Len(layers) = 2
    /\ layers[2].effect.name = "Wave Gradient"
    /\ layers[2].effect.phase = 1

\* C17 as stated: every operation but update() leaves the board as it was.
C17_OnlyUpdateChangesBoard ==
    [][lastOp' # "update" => render_board' = render_board]_vars

\* C17: the board is changed only by update() and by the pop_effect() that
\* removes the last layer, which sets every key to black; push_effect, a
\* pop_effect that leaves a layer or meets none, save, load_from_save and
\* get_map leave the board as it was.
C17_BoardChangedByUpdateAndLastPop ==
    [][/\ (lastOp' # "update" /\ ~(lastOp' = "pop" /\ Len(layers) = 1)) =>
            render_board' = render_board
       /\ (lastOp' = "pop" /\ Len(layers) = 1) => AllBlack(render_board')]_vars

\* a pop has left one layer and the colours of the last update() on the board
C17_Witness ==
    /\ lastOp = "pop"
    /\ Len(layers) = 1
    /\ last_update_ms > 0
    /\ ~AllBlack(render_board)

\* C18: after an update() of a manager that holds layers the board is what
\* compositing the layers just updated onto an empty board gives, so that a
\* key no layer covers shows nothing a removed layer painted.
C18_BoardFollowsFromLayers ==
    [][UpdateStep => render_board' = Composite(NewBoard, layers, 1)]_vars

\* C19: when the colour-map write of a frame fails, no custom-mode write
\* follows it.  (update() and pop_effect() return nothing, so there is no
\* mark of a failed frame to look at.)
C19_NoCustomModeAfterFailedMap ==
    (Len(hw) >= 1 /\ hw[1].file = "key_colour_map" /\ ~hw[1].ok) => Len(hw) = 1

\* C20: every layer of the manager has a mask of KEYS entries, and each
\* layer a load adds carries, entry for entry, the mask of a record of the
\* document.
C20_MaskHasOneEntryPerKey ==
    [][/\ \A i \in 1 .. Len(layers') : Len(layers'[i].key_mask) = KEYS
       /\ LoadStep =>
            \A i \in Len(layers) + 1 .. Len(layers') :
                \E k \in 1 .. Len(arg'.effects.a) :
                    /\ arg'.effects.a[k].key_mask.t = "bools"
                    /\ arg'.effects.a[k].key_mask.m = layers'[i].key_mask]_vars

\* a load of a record with a mask of another length and a valid record has
\* added the valid one to a pushed layer
C20_Witness ==
    /\ lastOp = "load"
    /\ ~panicked
    /\ arg.effects.t = "arr"
    /\ Len(arg.effects.a) = 2
    /\ IsValidRec(arg.effects.a[1])
    /\ IsBadLenRec(arg.effects.a[2])
    /\ Len(layers) = 2
    /\ layers[2].key_mask = arg.effects.a[1].key_mask.m


\* some layer of the pool can be pushed
PushAny == \E l \in LayerPool : push_effect(l.effect, l.key_mask)

\* C21: a push is possible in every state of a running manager, with or
\* without layers (below the bound of the model); it adds exactly one layer,
\* which is the last one, keeps the earlier layers in their places and
\* leaves a manager that holds layers.
C21_PushAlwaysAppends ==
    /\ []((~panicked /\ Len(layers) < MaxLayers) => ENABLED PushAny)
    /\ [][lastOp' = "push" =>
            /\ Len(layers') = Len(layers) + 1
            /\ SubSeq(layers', 1, Len(layers)) = layers
            /\ layers'[Len(layers')] \in LayerPool
            /\ layers' # <<>>
            /\ ~panicked']_vars

\* a layer has been pushed on top of a layer that an update() had advanced
C21_Witness ==
    /\ lastOp = "push"
    /\ Len(layers) = 2
    /\ layers[1].effect.name = "Wave Gradient"
    /\ layers[1].effect.phase = 1
    /\ layers[2].effect.name = "Static"

\* C22: a pop on a manager that holds layers removes the layer added last
\* and leaves the others as they were and in order; a pop that follows a
\* push thus gives back the layers the push had found.
C22_PopRemovesNewest ==
    [][(lastOp' = "pop" /\ layers # <<>>) =>
        /\ Len(layers') = Len(layers) - 1
        /\ \A i \in 1 .. Len(layers') : layers'[i] = layers[i]
        /\ lastOp = "push" => layers = Append(layers', layers[Len(layers)])]_vars

\* a pop has removed the upper of two layers that two updates had advanced
C22_Witness ==
    /\ lastOp = "pop"
    /\ Len(layers) = 1
    /\ layers[1].effect.name = "Wave Gradient"
    /\ layers[1].effect.phase = 2
    /\ hw = <<>>

\* C23: an update() of a manager that holds no layer changes nothing: the
\* manager still holds no layer, the board and the time of the last update
\* are as before, the clock was not read, and no write was issued.
C23_UpdateOnEmptyIsNoop ==
    [][(lastOp' = "update" /\ layers = <<>>) =>
        /\ layers' = <<>>
        /\ render_board' = render_board
        /\ last_update_ms' = last_update_ms
        /\ now' = now
        /\ hw' = <<>>]_vars

\* an update() has run on a manager that a pop had emptied after a tick
C23_Witness ==
    /\ lastOp = "update"
    /\ layers = <<>>
    /\ last_update_ms = 1
    /\ hw = <<>>

\* C24: the writes an operation issues are none at all or the pair of the
\* colour map, holding the board as the operation left it, followed by the
\* custom-mode activation; only update() and pop_effect() issue them.
C24_FramePushIsOrderedPair ==
    hw # <<>> =>
        /\ lastOp \in {"update", "pop"}
        /\ Len(hw) = 2
        /\ hw[1].file = "key_colour_map"
        /\ hw[1].map = render_board
        /\ hw[2].file = "custom_frame_mode"

\* the pop of the last layer has issued its two writes after two ticks, the
\* second write failing
C24_Witness ==
    /\ lastOp = "pop"
    /\ layers = <<>>
    /\ now = 2
    /\ Len(hw) = 2
    /\ hw[1].ok
    /\ ~hw[2].ok

\* C25: every update() of a manager that holds layers issues exactly two
\* writes, the whole board and then the custom-mode activation, whether the
\* board changed or not and whether a write fails or not; what it leaves
\* (layers, board, time) follows from the layers and the board it found
\* alone, not from the outcome of any write.
C25_EveryTickRewritesFrame ==
    [][UpdateStep =>
        /\ Len(hw') = 2
        /\ hw'[1].file = "key_colour_map" /\ hw'[1].map = render_board'
        /\ hw'[2].file = "custom_frame_mode"
        /\ render_board' = Composite(render_board, layers, 1)
        /\ layers' = StepAll(layers)
        /\ last_update_ms' = now']_vars

\* the second update() of one static layer has written the board it had
\* written before, and the colour-map write has failed
C25_Witness ==
    /\ lastOp = "update"
    /\ now = 2
    /\ Len(layers) = 1
    /\ layers[1].effect.name = "Static"
    /\ render_board = Composite(NewBoard, layers, 1)
    /\ Len(hw) = 2
    /\ ~hw[1].ok

(***************************************************************************)
(* Properties of update() taken step by step (checked under SpecConc)      *)
(***************************************************************************)
\* C26: the loop of an update() starts at the oldest layer, each turn
\* updates the effect of the next layer and of no other, whatever its mask
\* covers, and when the colour map is written every layer has been updated
\* exactly once.
C26_EveryLayerUpdatedOnceInOrder ==
    [][/\ lastOp' = "update_begin" => tick_i' = 1
       /\ (lastOp' = "update_layer" /\ tick_i <= Len(layers)) =>
            /\ tick_i' = tick_i + 1
            /\ layers'[tick_i].effect = EffectStep(layers[tick_i].effect)
            /\ \A j \in 1 .. Len(layers) : j # tick_i => layers'[j] = layers[j]
       /\ lastOp' = "update_kbd" =>
            /\ tick_i = Len(tick_ls) + 1
            /\ \A j \in 1 .. Len(tick_ls) :
                    layers'[j].effect = EffectStep(tick_ls[j].effect)]_vars

\* an update() has advanced a layer whose mask covers no key and the layer
\* above it
C26_Witness ==
    /\ lastOp = "update_kbd"
    /\ Len(layers) = 2
    /\ layers[1].effect.name = "Breathing Single"
    /\ \A i \in 1 .. KEYS : ~layers[1].key_mask[i]
    /\ layers[1].effect.phase = 1
    /\ layers[2].effect.name = "Wave Gradient"
    /\ layers[2].effect.phase = 1

(***************************************************************************)
(* Properties of the stack, save and the masks (checked under Spec)        *)
(***************************************************************************)
\* C27: save() returns a document whose `effects` field is a list with one
\* record per layer, in stack order, each made of the name and parameter
\* bytes of the layer's effect and of the layer's mask; a manager without
\* layers saves an empty list.  (Every layer serialises, so none is dropped.)
C27_SaveListsLayersInOrder ==
    [][lastOp' = "save" =>
        /\ saved'.effects.t = "arr"
        /\ Len(saved'.effects.a) = Len(layers)
        /\ \A i \in 1 .. Len(layers) :
              /\ saved'.effects.a[i].name = JStr(layers[i].effect.name)
              /\ saved'.effects.a[i].args = JBytes(layers[i].effect.args)
              /\ saved'.effects.a[i].key_mask = JBools(layers[i].key_mask)
        /\ layers' = layers]_vars

\* a save has listed a breathing layer below a static one
C27_Witness ==
    /\ lastOp = "save"
    /\ Len(layers) = 2
    /\ Len(saved.effects.a) = 2
    /\ saved.effects.a[1].name.s = "Breathing Single"
    /\ saved.effects.a[2].name.s = "Static"

\* C28: while the manager holds no layer its board is black and every
\* colour map an operation writes is black; of the operations that find no
\* layer and leave none, only pop_effect() writes at all.  So the black
\* frame of the pop that emptied the manager stays the last one written
\* until a layer is added and an update() runs.
C28_EmptyStackStaysBlack ==
    [][layers' = <<>> =>
        /\ AllBlack(render_board')
        /\ \A k \in 1 .. Len(hw') :
              hw'[k].file = "key_colour_map" => AllBlack(hw'[k].map)
        /\ (layers = <<>> /\ lastOp' # "pop") => hw' = <<>>]_vars

\* after two ticks and the pop of the last layer, a load of a document whose
\* only record is turned down has left the manager empty and written nothing
C28_Witness ==
    /\ lastOp = "load"
    /\ ~panicked
    /\ arg.effects.t = "arr"
    /\ Len(arg.effects.a) = 1
    /\ IsBadLenRec(arg.effects.a[1])
    /\ layers = <<>>
    /\ now = 2
    /\ AllBlack(render_board)
    /\ hw = <<>>

\* the smaller of two numbers
Min(a, b) == IF a <= b THEN a ELSE b

\* C29: no operation changes the mask of a layer that stays in the stack,
\* and the layers that a load of the document just saved adds have the
\* masks of the layers that were saved, in order.
C29_MaskIsFixed ==
    [][/\ \A i \in 1 .. Min(Len(layers), Len(layers')) :
              layers'[i].key_mask = layers[i].key_mask
       /\ (lastOp = "save" /\ lastOp' = "load" /\ arg' = saved) =>
              /\ Len(layers') = 2 * Len(layers)
              /\ \A i \in 1 .. Len(layers) :
                    layers'[Len(layers) + i].key_mask = layers[i].key_mask]_vars

\* a layer that an update() had advanced was saved, and the load of that
\* document has added its copy with the same mask
C29_Witness ==
    /\ lastOp = "load"
    /\ Len(layers) = 2
    /\ arg = save(SubSeq(layers, 1, 1))
    /\ layers[1].effect.name = "Wave Gradient"
    /\ layers[1].effect.phase = 1
    /\ layers[2].effect.phase = 0
    /\ layers[2].key_mask = layers[1].key_mask
    /\ layers[1].key_mask = MaskOf({1, 2, 3})

\* C30: push_effect, load_from_save, save, get_map and a pop_effect that
\* leaves a layer issue no write and leave the board and the time of the
\* last update as they were.
C30_StackChangesWaitForUpdate ==
    [][(\/ lastOp' \in {"push", "load", "save", "get_map"}
        \/ lastOp' = "pop" /\ Len(layers) >= 2) =>
        /\ hw' = <<>>
        /\ render_board' = render_board
        /\ last_update_ms' = last_update_ms]_vars

\* a layer has been pushed on a manager whose board shows an earlier tick;
\* the board does not show the new layer yet
C30_Witness ==
    /\ lastOp = "push"
    /\ Len(layers) = 2
    /\ ~AllBlack(render_board)
    /\ render_board # Composite(render_board, layers, 1)
    /\ hw = <<>>

(***************************************************************************)
(* Properties of the settings client (checked under SpecClient)            *)
(***************************************************************************)
\* C16: when a request of the client was answered with a response of
\* another variant, the client has stopped, whichever helper sent the
\* request and whichever place called the helper.
C16_MismatchIsFatal ==
    (lastOp = "call" /\ \E i \in DOMAIN replies : replies[i] = "mismatch") =>
        client = "crashed"

====
